---------------------------- MODULE Spec2Model ----------------------------
(***************************************************************************)
(* RTWM - Real Time Website Monitoring (src/index.js).                     *)
(*                                                                         *)
(* The file holds two programs one after the other: a first program that   *)
(* registers GET /monitor (lines 7-71) and a second one with helpers, a    *)
(* second registration of GET /monitor, GET / and GET /origin-uptime       *)
(* (lines 73-282).  Both registrations are modelled, and which of the two  *)
(* serves a request is left open: the file repeats its imports and its     *)
(* const declarations, and Express hands a request to the handler that     *)
(* was registered first.                                                   *)
(*                                                                         *)
(* A JavaScript string is a sequence of one-character strings, a           *)
(* JavaScript value is a tagged record, and a JavaScript number is kept in *)
(* thousandths (fixed point, three decimals).  The timestamp field of the  *)
(* record (Date.now()) is left out: nothing reads it.                      *)
(***************************************************************************)
EXTENDS Integers, Sequences, FiniteSets, TLC

VARIABLES
    pc,         \* per request: where its /monitor handler is suspended
    handler,    \* per request: which registration of /monitor serves it
    query,      \* per request: req.query
    fetchUrl,   \* per request and branch: the URL handed to fetch
    out,        \* per request: the record the handler is assembling
    resp,       \* per request: the target response the handler received
    timer,      \* per request and branch: the setTimeout of fetchWithTimeout
    aborted,    \* per request and branch: controller.signal.aborted
    conn,       \* per request and branch: the outbound connection
    issued,     \* per request and branch: how many times fetch was called
    sent,       \* per request: the responses written to the client
    config,     \* the process-wide defaults read at startup
    fmtIn,      \* the arguments of two calls of formatUptimeSeconds
    fmtOut      \* the results of those calls

vars == <<pc, handler, query, fetchUrl, out, resp, timer, aborted, conn,
          issued, sent, config, fmtIn, fmtOut>>

-----------------------------------------------------------------------------
(* JavaScript values *)

Null == [t |-> "null"]

Undefined == [t |-> "undefined"]

NaN == [t |-> "nan"]

Infinity == [t |-> "inf"]

Str(s) == [t |-> "str", s |-> s]

Num(m) == [t |-> "num", m |-> m]

Bool(b) == [t |-> "bool", b |-> b]

Obj(u) == [t |-> "obj", uptime |-> u]

Arr == [t |-> "arr"]

\* String literals of the source, as character sequences.
s_empty == << >>

s_hit == <<"h", "i", "t">>

s_miss == <<"m", "i", "s", "s">>

s_cache == <<"c", "a", "c", "h", "e">>

s_revalidate == <<"r", "e", "v", "a", "l", "i", "d", "a", "t", "e">>

s_revalidated == s_revalidate \o <<"d">>

s_swr == <<"s", "t", "a", "l", "e", "-", "w", "h", "i", "l", "e", "-">> \o s_revalidate

s_none == <<"n", "o", "n", "e">>

s_error == <<"e", "r", "r", "o", "r">>

s_agePrefix == <<"a", "g", "e", ":">>

s_cfPrefix == <<"c", "f", ":">>

s_xcPrefix == <<"x", "-", "c", "a", "c", "h", "e", ":">>

s_nfPrefix == <<"x", "-", "n", "f", "-", "r", "e", "q", "u", "e", "s", "t", "-", "i", "d", ":">>

s_fetchErrorPrefix == <<"f", "e", "t", "c", "h", "-", "e", "r", "r", "o", "r", ":">>

s_unavailable == <<"u", "n", "a", "v", "a", "i", "l", "a", "b", "l", "e">>

s_statusOpen == <<" ", "(", "s", "t", "a", "t", "u", "s", " ">>

s_AbortError == <<"A", "b", "o", "r", "t", "E", "r", "r", "o", "r">>

s_FetchError == <<"F", "e", "t", "c", "h", "E", "r", "r", "o", "r">>

s_TypeError == <<"T", "y", "p", "e", "E", "r", "r", "o", "r">>

UpperLetters == <<"A", "B", "C", "D", "E", "F", "G", "H", "I", "J", "K", "L", "M",
                  "N", "O", "P", "Q", "R", "S", "T", "U", "V", "W", "X", "Y", "Z">>

LowerLetters == <<"a", "b", "c", "d", "e", "f", "g", "h", "i", "j", "k", "l", "m",
                  "n", "o", "p", "q", "r", "s", "t", "u", "v", "w", "x", "y", "z">>

DigitChars == <<"0", "1", "2", "3", "4", "5", "6", "7", "8", "9">>

\* String.prototype.toLowerCase, on the ASCII letters.
toLowerCase(s) ==
    [i \in 1..Len(s) |->
        IF \E k \in 1..Len(UpperLetters) : UpperLetters[k] = s[i]
        THEN LowerLetters[CHOOSE k \in 1..Len(UpperLetters) : UpperLetters[k] = s[i]]
        ELSE s[i]]

\* String.prototype.includes.
includes(s, sub) ==
    \E i \in 1..(Len(s) - Len(sub) + 1) : SubSeq(s, i, i + Len(sub) - 1) = sub

IsDigit(c) == \E k \in 1..Len(DigitChars) : DigitChars[k] = c

DigitValue(c) == (CHOOSE k \in 1..Len(DigitChars) : DigitChars[k] = c) - 1

RECURSIVE DigitsValue(_)
DigitsValue(s) ==
    IF s = << >> THEN 0
    ELSE 10 * DigitsValue(SubSeq(s, 1, Len(s) - 1)) + DigitValue(s[Len(s)])

RECURSIVE NatToChars(_)
NatToChars(n) ==
    IF n < 10 THEN <<DigitChars[n + 1]>>
    ELSE NatToChars(n \div 10) \o <<DigitChars[(n % 10) + 1]>>

\* Number(string) on the empty string and on signed decimal integers; every
\* other string of the model's inputs is a word and converts to NaN.
StringToNumber(s) ==
    LET signed == Len(s) > 0 /\ s[1] \in {"-", "+"}
        digits == IF signed THEN SubSeq(s, 2, Len(s)) ELSE s
    IN  IF s = << >> THEN Num(0)
        ELSE IF digits # << >> /\ \A i \in 1..Len(digits) : IsDigit(digits[i])
        THEN Num((IF signed /\ s[1] = "-" THEN -1000 ELSE 1000) * DigitsValue(digits))
        ELSE NaN

\* Number(value).
ToNumber(v) ==
    CASE v.t = "num" -> v
      [] v.t = "nan" -> NaN
      [] v.t = "inf" -> Infinity
      [] v.t = "null" -> Num(0)
      [] v.t = "bool" -> IF v.b THEN Num(1000) ELSE Num(0)
      [] v.t = "str" -> StringToNumber(v.s)
      [] OTHER -> NaN

\* String(number) of a whole number, as a template literal interpolates it.
NumberToString(v) ==
    CASE v.t = "nan" -> <<"N", "a", "N">>
      [] v.t = "inf" -> <<"I", "n", "f", "i", "n", "i", "t", "y">>
      [] OTHER -> IF v.m < 0 THEN <<"-">> \o NatToChars((-v.m) \div 1000)
                  ELSE NatToChars(v.m \div 1000)

\* Truthiness, as && and || and ?: test it.
Truthy(v) ==
    CASE v.t \in {"null", "undefined", "nan"} -> FALSE
      [] v.t = "str" -> v.s # << >>
      [] v.t = "num" -> v.m # 0
      [] v.t = "bool" -> v.b
      [] OTHER -> TRUE

\* a || b
Or(a, b) == IF Truthy(a) THEN a ELSE b

\* Number.isFinite
isFinite(v) == v.t = "num"

\* v > 0
Positive(v) == (v.t = "num" /\ v.m > 0) \/ v.t = "inf"

-----------------------------------------------------------------------------
(* Helpers of the second program *)

RECURSIVE join(_, _)
\* Array.prototype.join
join(parts, sep) ==
    IF parts = << >> THEN << >>
    ELSE IF Len(parts) = 1 THEN parts[1]
    ELSE parts[1] \o sep \o join(Tail(parts), sep)

formatUptimeSeconds_MinutesOnlyIfNonzero(sec) ==
    IF ~isFinite(sec) \/ sec.m < 0 THEN <<"0", "s">>
    ELSE LET s == sec.m \div 1000
             hours == s \div 3600
             mins == (s % 3600) \div 60
             secs == s % 60
             parts == (IF hours # 0 THEN <<NatToChars(hours) \o <<"h">>>> ELSE << >>)
                      \o (IF mins # 0 THEN <<NatToChars(mins) \o <<"m">>>> ELSE << >>)
                      \o <<NatToChars(secs) \o <<"s">>>>
         IN  join(parts, <<" ">>)

formatUptimeSeconds(sec) ==
    IF ~isFinite(sec) \/ sec.m < 0 THEN <<"0", "s">>
    ELSE LET s == sec.m \div 1000
             hours == s \div 3600
             mins == (s % 3600) \div 60
             secs == s % 60
             parts == (IF hours # 0 THEN <<NatToChars(hours) \o <<"h">>>> ELSE << >>)
                      \o (IF mins # 0 \/ hours # 0 THEN <<NatToChars(mins) \o <<"m">>>> ELSE << >>)
                      \o <<NatToChars(secs) \o <<"s">>>>
         IN  join(parts, <<" ">>)

\* Buffer.byteLength(str, "utf8"): the bodies of the model are ASCII, one
\* byte for each character.
Utf8Bytes(c) == 1

RECURSIVE byteLength(_)
byteLength(s) ==
    IF s = << >> THEN 0 ELSE Utf8Bytes(s[1]) + byteLength(Tail(s))

bytesLengthFromString(v) ==
    IF v.t # "str" THEN 0 ELSE byteLength(v.s)

-----------------------------------------------------------------------------
(* Cache classification *)

\* headers.get(name): the value of the header, or null when it is absent.
\* A header set is a record over the five names the handlers read.
headersGet(h, name) == h[name]

\* Second registration, lines 192-234: {cache, cacheReason} from the headers.
classifyCache(h) ==
    LET ageHeader == headersGet(h, "age")
        age == IF Truthy(ageHeader) THEN ToNumber(ageHeader) ELSE Num(0)
        xcache == Or(Or(headersGet(h, "x-cache"), headersGet(h, "x-cache-hits")), Str(s_empty))
        cfCache == Or(headersGet(h, "cf-cache-status"), Str(s_empty))
        xNf == Or(headersGet(h, "x-nf-request-id"), Str(s_empty))
        xcLower == toLowerCase(Or(xcache, Str(s_empty)).s)
        cfLower == toLowerCase(Or(cfCache, Str(s_empty)).s)
        nfLower == toLowerCase(Or(xNf, Str(s_empty)).s)
        vendorReason == IF cfLower # s_empty THEN s_cfPrefix \o cfCache.s
                        ELSE s_xcPrefix \o xcache.s
    IN  IF Positive(age)
        THEN [cache |-> "HIT", cacheReason |-> Str(s_agePrefix \o NumberToString(age))]
        ELSE IF includes(cfLower, s_hit) \/ includes(xcLower, s_hit)
        THEN [cache |-> "HIT", cacheReason |-> Str(vendorReason)]
        ELSE IF \/ includes(cfLower, s_revalidated)
                \/ includes(xcLower, s_revalidated)
                \/ includes(xcLower, s_swr)
                \/ includes(xcLower, s_revalidate)
        THEN [cache |-> "REVALIDATED", cacheReason |-> Str(vendorReason)]
        ELSE IF includes(cfLower, s_miss) \/ includes(xcLower, s_miss)
        THEN [cache |-> "MISS", cacheReason |-> Str(vendorReason)]
        ELSE IF includes(nfLower, s_cache) \/ includes(nfLower, s_hit)
        THEN [cache |-> "HIT", cacheReason |-> Str(s_nfPrefix \o xNf.s)]
        ELSE [cache |-> "UNKNOWN",
              cacheReason |-> Str(s_nfPrefix \o Or(xNf, Str(s_none)).s)]

\* First registration, lines 31-49: cache from the headers.
classifyCacheFirst(h) ==
    LET age == ToNumber(Or(headersGet(h, "age"), Num(0)))
        xc == headersGet(h, "x-cache")
        xcache == Or(IF xc.t = "str" THEN Str(toLowerCase(xc.s)) ELSE Undefined,
                     Str(s_empty)).s
        nf == Or(headersGet(h, "x-nf-request-id"), Str(s_empty)).s
    IN  IF Positive(age) THEN "HIT (age)"
        ELSE IF includes(xcache, s_hit) THEN "HIT (x-cache)"
        ELSE IF includes(xcache, s_miss) THEN "MISS (x-cache)"
        ELSE IF includes(xcache, s_revalidated) THEN "REVALIDATED"
        ELSE IF includes(nf, s_cache) THEN "HIT (nf-id)"
        ELSE "MISS (nf-id)"

-----------------------------------------------------------------------------
(* Configuration and inputs *)

url_cdn == <<"h", "t", "t", "p", "s", ":", "/", "/", "c", "d", "n", ".", "k", "y", "r", "t", ".", "m", "y", ".", "i", "d", "/">>

url_originUptime == <<"h", "t", "t", "p", "s", ":", "/", "/", "m", ".", "k", "y", "r", "t", ".", "m", "y", ".", "i", "d", "/", "o", "r", "i", "g", "i", "n", "-", "u", "p", "t", "i", "m", "e">>

url_envTarget == <<"h", "t", "t", "p", "s", ":", "/", "/", "e", "n", "v", ".", "e", "x", "a", "m", "p", "l", "e", "/">>

url_queryTarget == <<"h", "t", "t", "p", "s", ":", "/", "/", "q", ".", "e", "x", "a", "m", "p", "l", "e", "/">>

url_queryOrigin == <<"h", "t", "t", "p", "s", ":", "/", "/", "q", ".", "e", "x", "a", "m", "p", "l", "e", "/", "u", "p">>

url_queryOriginSnake == <<"h", "t", "t", "p", "s", ":", "/", "/", "q", ".", "e", "x", "a", "m", "p", "l", "e", "/", "u", "p", "2">>

\* DEFAULT_TARGET and DEFAULT_ORIGIN_UPTIME_ENDPOINT with TARGET_URL set.
EnvConfig == [target |-> Str(url_envTarget), originUptimeEndpoint |-> Str(url_originUptime)]

\* DEFAULT_TARGET and DEFAULT_ORIGIN_UPTIME_ENDPOINT with the environment unset.
DefaultConfig == [target |-> Str(url_cdn), originUptimeEndpoint |-> Str(url_originUptime)]

NoQuery == [target |-> Undefined, originUptime |-> Undefined, origin_uptime |-> Undefined]

\* req.query: each parameter absent, empty or a URL.
Queries ==
    [target : {Undefined, Str(s_empty), Str(url_queryTarget)},
     originUptime : {Undefined, Str(url_queryOrigin)},
     origin_uptime : {Undefined, Str(url_queryOriginSnake)}]

Branches == {"target", "origin"}

AgeValues ==
    {Null, Str(<<"0">>), Str(<<"-", "3">>), Str(<<"a", "b", "c">>), Str(<<"5">>)}

XCacheValues ==
    {Null, Str(<<"H", "I", "T">>), Str(<<"M", "I", "S", "S">>),
     Str(<<"R", "e", "v", "a", "l", "i", "d", "a", "t", "e">>)}

XCacheHitsValues == {Null, Str(<<"1">>)}

CfValues ==
    {Null, Str(<<"H", "I", "T">>), Str(<<"M", "I", "S", "S">>),
     Str(<<"R", "E", "V", "A", "L", "I", "D", "A", "T", "E", "D">>),
     Str(s_revalidate), Str(s_swr),
     Str(<<"D", "Y", "N", "A", "M", "I", "C">>)}

NfValues ==
    {Null, Str(<<"0", "1", "J", "-", "c", "a", "c", "h", "e">>),
     Str(<<"0", "1", "J", "-", "H", "i", "t">>), Str(<<"0", "1", "J">>)}

HeaderSets ==
    {[n \in {"age", "x-cache", "x-cache-hits", "cf-cache-status", "x-nf-request-id"} |->
        CASE n = "age" -> a
          [] n = "x-cache" -> x
          [] n = "x-cache-hits" -> xh
          [] n = "cf-cache-status" -> c
          [] n = "x-nf-request-id" -> nf] :
        a \in AgeValues, x \in XCacheValues, xh \in XCacheHitsValues,
        c \in CfValues, nf \in NfValues}

NoHeaders ==
    [n \in {"age", "x-cache", "x-cache-hits", "cf-cache-status", "x-nf-request-id"} |-> Null]

\* A few header sets, for the runs with several requests in flight.
FewHeaderSets == {NoHeaders, [NoHeaders EXCEPT !["age"] = Str(<<"5">>)]}

Statuses == {200, 503}

Latencies == {12}

\* The result of reading a body: its text, or Undefined when the read fails.
Bodies == {Str(s_empty), Str(<<"o", "k">>), Undefined}

\* process.uptime(), in thousandths of a second.
Uptimes == {Num(65500)}

\* What uRes.json() gives: the parsed value, or Undefined when the body is
\* not JSON or cannot be read.
UptimeFields ==
    {Undefined, Null, Num(3661000), Num(-5000), Infinity, Bool(TRUE),
     Str(<<"1", "2", "3">>), Str(<<"a", "b", "c">>)}

JsonBodies ==
    {Undefined, Null, Num(0), Num(45000), Infinity, Str(<<"4", "5">>), Arr}
    \cup {Obj(u) : u \in UptimeFields}

FewJsonBodies == {Undefined, Num(45000), Obj(Num(3661000))}

ErrorNames == {s_FetchError, s_TypeError}

-----------------------------------------------------------------------------
(* The /monitor handler of the second program, piece by piece *)

\* a && b
And(a, b) == IF Truthy(a) THEN b ELSE a

\* String(value) of a query parameter.
String(v) == IF v.t = "str" THEN v ELSE Str(NumberToString(ToNumber(v)))

resolveTarget_HardCoded(q, cfg) == Str(url_cdn)

\* line 161
resolveTarget(q, cfg) == Or(And(q.target, String(q.target)), cfg.target)

\* lines 162-163
resolveOriginUptimeEndpoint(q, cfg) ==
    LET originUptimeOverride ==
            Or(And(q.originUptime, String(q.originUptime)),
               And(q.origin_uptime, String(q.origin_uptime)))
    IN  Or(originUptimeOverride, cfg.originUptimeEndpoint)

\* lines 165-178
initialRecord(target, up) ==
    [target |-> target, online |-> FALSE, statusCode |-> 0, latency |-> -1,
     cache |-> "UNKNOWN", cacheReason |-> Null, bandwidth |-> 0,
     uptime |-> up, uptimeFormatted |-> Str(formatUptimeSeconds(up)),
     originUptime |-> Null, originUptimeFormatted |-> Null]

\* r.ok
ok(status) == status \in 200..299

\* lines 184-186
targetResponded(o, status, lat) ==
    [o EXCEPT !.latency = lat, !.statusCode = status, !.online = ok(status)]

\* lines 189-234; body is Undefined when r.text() rejects
targetBodyRead(o, body, h) ==
    LET text == IF body = Undefined THEN Str(s_empty) ELSE body
        c == classifyCache(h)
    IN  [o EXCEPT !.bandwidth = bytesLengthFromString(text),
                  !.cache = c.cache, !.cacheReason = c.cacheReason]

targetFailed_KeepsCache(o, errName) ==
    [o EXCEPT !.online = FALSE, !.latency = -1, !.statusCode = 0, !.bandwidth = 0]

\* lines 235-243
targetFailed(o, errName) ==
    [o EXCEPT !.online = FALSE, !.latency = -1, !.statusCode = 0,
              !.cache = "NONE",
              !.cacheReason = Str(s_fetchErrorPrefix \o
                                  (IF errName # s_empty THEN errName ELSE s_error)),
              !.bandwidth = 0]

\* lines 249-260; uj is Undefined when uRes.json() rejects
originBodyRead(o, body) ==
    LET uj == IF body = Undefined THEN Null ELSE body
        field == IF uj.t = "obj" THEN uj.uptime ELSE Undefined
    IN  IF Truthy(uj) /\ field \notin {Null, Undefined}
        THEN LET n == ToNumber(field)
             IN  [o EXCEPT !.originUptime = n,
                           !.originUptimeFormatted =
                               IF isFinite(n) THEN Str(formatUptimeSeconds(n)) ELSE @]
        ELSE IF uj.t \in {"num", "nan", "inf"}
        THEN [o EXCEPT !.originUptime = uj,
                       !.originUptimeFormatted = Str(formatUptimeSeconds(uj))]
        ELSE o

\* lines 261-265
originNotOk(o, status) ==
    [o EXCEPT !.originUptime = Null,
              !.originUptimeFormatted =
                  Str(s_unavailable \o s_statusOpen \o NatToChars(status) \o <<")">>)]

originFailed_MarksOffline(o) ==
    [o EXCEPT !.originUptime = Null, !.originUptimeFormatted = Str(s_unavailable),
              !.online = FALSE, !.statusCode = 0]

\* lines 266-270
originFailed(o) ==
    [o EXCEPT !.originUptime = Null, !.originUptimeFormatted = Str(s_unavailable)]

\* line 273
attachUptime(o) == [o EXCEPT !.uptimeFormatted = Str(formatUptimeSeconds(o.uptime))]

\* JSON.stringify of a number: NaN and Infinity are written as null.
jsonNumber(v) == IF v.t \in {"nan", "inf"} THEN Null ELSE v

\* res.json(out), line 275: status 200 and the serialized record
resJson(o) ==
    [status |-> 200, body |-> [o EXCEPT !.originUptime = jsonNumber(@)]]

clearTimeout_Forgotten(t) == t

\* clearTimeout(id), lines 124 and 127
clearTimeout(t) == IF t = "pending" THEN "cleared" ELSE t

-----------------------------------------------------------------------------
(* State *)

NoRecord == [none |-> TRUE]

NoOutcome == [kind |-> "none"]

Unread == [t |-> "unread"]

InitRequests(R, C) ==
    /\ pc = [r \in R |-> "idle"]
    /\ handler = [r \in R |-> "none"]
    /\ query = [r \in R |-> NoQuery]
    /\ fetchUrl = [r \in R |-> [target |-> Null, origin |-> Null]]
    /\ out = [r \in R |-> NoRecord]
    /\ resp = [r \in R |-> [target |-> NoOutcome, targetBody |-> Unread,
                            origin |-> NoOutcome, originBody |-> Unread]]
    /\ timer = [r \in R |-> [b \in Branches |-> "unset"]]
    /\ aborted = [r \in R |-> [b \in Branches |-> FALSE]]
    /\ conn = [r \in R |-> [b \in Branches |-> "none"]]
    /\ issued = [r \in R |-> [b \in Branches |-> 0]]
    /\ sent = [r \in R |-> << >>]
    /\ config \in C

NoFormatting ==
    /\ fmtIn = <<Num(0), Num(0)>>
    /\ fmtOut = <<Null, Null>>

Requests == DOMAIN pc

-----------------------------------------------------------------------------
(* The first registration of /monitor, lines 14-66 *)

\* lines 15-23: the handler runs to its first await, fetch of the fixed URL
ReceiveFirst(r) ==
    /\ pc[r] = "idle"
    /\ pc' = [pc EXCEPT ![r] = "firstFetch"]
    /\ handler' = [handler EXCEPT ![r] = "first"]
    /\ fetchUrl' = [fetchUrl EXCEPT ![r].target = Str(url_cdn)]
    /\ out' = [out EXCEPT ![r] = [online |-> TRUE, statusCode |-> 0, latency |-> 0,
                                  cache |-> "UNKNOWN", bandwidth |-> 0]]
    /\ conn' = [conn EXCEPT ![r].target = "open"]
    /\ issued' = [issued EXCEPT ![r].target = @ + 1]
    /\ UNCHANGED <<query, resp, timer, aborted, sent, config, fmtIn, fmtOut>>

\* lines 24-28: the response arrives, the handler awaits its text
FirstResponds(r, status, h, lat) ==
    /\ pc[r] = "firstFetch"
    /\ conn[r].target = "open"
    /\ pc' = [pc EXCEPT ![r] = "firstBody"]
    /\ out' = [out EXCEPT ![r].latency = lat, ![r].statusCode = status,
                          ![r].online = ok(status)]
    /\ resp' = [resp EXCEPT ![r].target =
                    [kind |-> "response", status |-> status, headers |-> h]]
    /\ conn' = [conn EXCEPT ![r].target = "body"]
    /\ UNCHANGED <<handler, query, fetchUrl, timer, aborted, issued, sent, config,
                   fmtIn, fmtOut>>

\* lines 29-49 and 58-65: the text arrives, the record is completed and sent
FirstBodyRead(r, text) ==
    /\ pc[r] = "firstBody"
    /\ conn[r].target = "body"
    /\ text # Undefined
    /\ LET o == [out[r] EXCEPT !.bandwidth = byteLength(text.s),
                               !.cache = classifyCacheFirst(resp[r].target.headers)]
       IN  /\ out' = [out EXCEPT ![r] = o]
           /\ sent' = [sent EXCEPT ![r] = Append(@, [status |-> 200, body |-> o])]
    /\ pc' = [pc EXCEPT ![r] = "done"]
    /\ resp' = [resp EXCEPT ![r].targetBody = text]
    /\ conn' = [conn EXCEPT ![r].target = "closed"]
    /\ UNCHANGED <<handler, query, fetchUrl, timer, aborted, issued, config,
                   fmtIn, fmtOut>>

\* lines 51-65: fetch or r.text() rejects
FirstFails(r) ==
    /\ \/ pc[r] = "firstFetch" /\ conn[r].target = "open"
       \/ pc[r] = "firstBody" /\ conn[r].target = "body"
    /\ LET o == [out[r] EXCEPT !.online = FALSE, !.latency = -1,
                               !.cache = "NONE", !.bandwidth = 0]
       IN  /\ out' = [out EXCEPT ![r] = o]
           /\ sent' = [sent EXCEPT ![r] = Append(@, [status |-> 200, body |-> o])]
    /\ pc' = [pc EXCEPT ![r] = "done"]
    /\ resp' = [resp EXCEPT ![r].target =
                    IF pc[r] = "firstFetch" THEN [kind |-> "error"] ELSE @,
                            ![r].targetBody =
                    IF pc[r] = "firstBody" THEN Undefined ELSE @]
    /\ conn' = [conn EXCEPT ![r].target = "failed"]
    /\ UNCHANGED <<handler, query, fetchUrl, timer, aborted, issued, config,
                   fmtIn, fmtOut>>

-----------------------------------------------------------------------------
(* The second registration of /monitor, lines 160-276, with fetchWithTimeout *)

\* lines 161-183 and 119-123: the handler runs to its first await; the
\* call of fetchWithTimeout creates its controller, arms its timer and
\* calls fetch
Receive(r, q, up) ==
    /\ pc[r] = "idle"
    /\ pc' = [pc EXCEPT ![r] = "targetFetch"]
    /\ handler' = [handler EXCEPT ![r] = "second"]
    /\ query' = [query EXCEPT ![r] = q]
    /\ fetchUrl' = [fetchUrl EXCEPT ![r] =
                        [target |-> resolveTarget(q, config),
                         origin |-> resolveOriginUptimeEndpoint(q, config)]]
    /\ out' = [out EXCEPT ![r] = initialRecord(resolveTarget(q, config), up)]
    /\ timer' = [timer EXCEPT ![r].target = "pending"]
    /\ conn' = [conn EXCEPT ![r].target = "open"]
    /\ issued' = [issued EXCEPT ![r].target = @ + 1]
    /\ UNCHANGED <<resp, aborted, sent, config, fmtIn, fmtOut>>

\* lines 123-125 and 184-189: fetch resolves with a response; the timer is
\* cleared and the handler awaits r.text()
TargetResponds(r, status, h, lat) ==
    /\ pc[r] = "targetFetch"
    /\ conn[r].target = "open"
    /\ pc' = [pc EXCEPT ![r] = "targetBody"]
    /\ timer' = [timer EXCEPT ![r].target = clearTimeout(@)]
    /\ out' = [out EXCEPT ![r] = targetResponded(@, status, lat)]
    /\ resp' = [resp EXCEPT ![r].target =
                    [kind |-> "response", status |-> status, headers |-> h]]
    /\ conn' = [conn EXCEPT ![r].target = "body"]
    /\ UNCHANGED <<handler, query, fetchUrl, aborted, issued, sent, config,
                   fmtIn, fmtOut>>

\* lines 189-234 and 247: the body read settles (body is Undefined when it
\* rejects); the record is classified and the origin-uptime call starts
TargetBodyRead(r, body) ==
    /\ pc[r] = "targetBody"
    /\ conn[r].target = "body"
    /\ pc' = [pc EXCEPT ![r] = "originFetch"]
    /\ out' = [out EXCEPT ![r] = targetBodyRead(@, body, resp[r].target.headers)]
    /\ resp' = [resp EXCEPT ![r].targetBody = body]
    /\ timer' = [timer EXCEPT ![r].origin = "pending"]
    /\ conn' = [conn EXCEPT ![r].target = "closed", ![r].origin = "open"]
    /\ issued' = [issued EXCEPT ![r].origin = @ + 1]
    /\ UNCHANGED <<handler, query, fetchUrl, aborted, sent, config, fmtIn, fmtOut>>

\* lines 126-129, 235-243 and 247: fetch rejects with a network error
TargetFails(r, errName) ==
    /\ pc[r] = "targetFetch"
    /\ conn[r].target = "open"
    /\ pc' = [pc EXCEPT ![r] = "originFetch"]
    /\ out' = [out EXCEPT ![r] = targetFailed(@, errName)]
    /\ resp' = [resp EXCEPT ![r].target = [kind |-> "error", name |-> errName]]
    /\ timer' = [timer EXCEPT ![r].target = clearTimeout(@), ![r].origin = "pending"]
    /\ conn' = [conn EXCEPT ![r].target = "failed", ![r].origin = "open"]
    /\ issued' = [issued EXCEPT ![r].origin = @ + 1]
    /\ UNCHANGED <<handler, query, fetchUrl, aborted, sent, config, fmtIn, fmtOut>>

\* controller.abort(), line 121: the controller of this call only
abort(ab, r, b) == [ab EXCEPT ![r][b] = TRUE]

\* lines 121, 126-129, 235-243 and 247: the timer of the target call fires
\* while fetch is pending; fetch rejects with AbortError
TargetTimeout(r) ==
    /\ pc[r] = "targetFetch"
    /\ timer[r].target = "pending"
    /\ pc' = [pc EXCEPT ![r] = "originFetch"]
    /\ out' = [out EXCEPT ![r] = targetFailed(@, s_AbortError)]
    /\ resp' = [resp EXCEPT ![r].target = [kind |-> "timeout"]]
    /\ timer' = [timer EXCEPT ![r].target = clearTimeout("fired"), ![r].origin = "pending"]
    /\ aborted' = abort(aborted, r, "target")
    /\ conn' = [conn EXCEPT ![r].target = "aborted", ![r].origin = "open"]
    /\ issued' = [issued EXCEPT ![r].origin = @ + 1]
    /\ UNCHANGED <<handler, query, fetchUrl, sent, config, fmtIn, fmtOut>>

\* lines 123-125, 248-249 and 261-265, 273-275: the origin-uptime call
\* resolves; a 2xx response is read as JSON, any other finishes the request
OriginResponds(r, status) ==
    /\ pc[r] = "originFetch"
    /\ conn[r].origin = "open"
    /\ timer' = [timer EXCEPT ![r].origin = clearTimeout(@)]
    /\ resp' = [resp EXCEPT ![r].origin = [kind |-> "response", status |-> status]]
    /\ IF ok(status)
       THEN /\ pc' = [pc EXCEPT ![r] = "originBody"]
            /\ conn' = [conn EXCEPT ![r].origin = "body"]
            /\ UNCHANGED <<out, sent>>
       ELSE LET o == attachUptime(originNotOk(out[r], status))
            IN  /\ pc' = [pc EXCEPT ![r] = "done"]
                /\ conn' = [conn EXCEPT ![r].origin = "closed"]
                /\ out' = [out EXCEPT ![r] = o]
                /\ sent' = [sent EXCEPT ![r] = Append(@, resJson(o))]
    /\ UNCHANGED <<handler, query, fetchUrl, aborted, issued, config, fmtIn, fmtOut>>

\* lines 249-260 and 273-275: uRes.json() settles (body is Undefined when
\* it rejects) and the record is sent
OriginBodyRead(r, body) ==
    /\ pc[r] = "originBody"
    /\ conn[r].origin = "body"
    /\ LET o == attachUptime(originBodyRead(out[r], body))
       IN  /\ out' = [out EXCEPT ![r] = o]
           /\ sent' = [sent EXCEPT ![r] = Append(@, resJson(o))]
    /\ pc' = [pc EXCEPT ![r] = "done"]
    /\ resp' = [resp EXCEPT ![r].originBody = body]
    /\ conn' = [conn EXCEPT ![r].origin = "closed"]
    /\ UNCHANGED <<handler, query, fetchUrl, timer, aborted, issued, config,
                   fmtIn, fmtOut>>

\* lines 126-129, 266-270 and 273-275: the origin-uptime fetch rejects
\* with a network error
OriginFails(r) ==
    /\ pc[r] = "originFetch"
    /\ conn[r].origin = "open"
    /\ LET o == attachUptime(originFailed(out[r]))
       IN  /\ out' = [out EXCEPT ![r] = o]
           /\ sent' = [sent EXCEPT ![r] = Append(@, resJson(o))]
    /\ pc' = [pc EXCEPT ![r] = "done"]
    /\ resp' = [resp EXCEPT ![r].origin = [kind |-> "error"]]
    /\ timer' = [timer EXCEPT ![r].origin = clearTimeout(@)]
    /\ conn' = [conn EXCEPT ![r].origin = "failed"]
    /\ UNCHANGED <<handler, query, fetchUrl, aborted, issued, config, fmtIn, fmtOut>>

\* lines 121, 126-129, 266-270 and 273-275: the timer of the origin-uptime
\* call fires while fetch is pending
OriginTimeout(r) ==
    /\ pc[r] = "originFetch"
    /\ timer[r].origin = "pending"
    /\ LET o == attachUptime(originFailed(out[r]))
       IN  /\ out' = [out EXCEPT ![r] = o]
           /\ sent' = [sent EXCEPT ![r] = Append(@, resJson(o))]
    /\ pc' = [pc EXCEPT ![r] = "done"]
    /\ resp' = [resp EXCEPT ![r].origin = [kind |-> "timeout"]]
    /\ timer' = [timer EXCEPT ![r].origin = clearTimeout("fired")]
    /\ aborted' = abort(aborted, r, "origin")
    /\ conn' = [conn EXCEPT ![r].origin = "aborted"]
    /\ UNCHANGED <<handler, query, fetchUrl, issued, config, fmtIn, fmtOut>>

\* The remote server sends its headers and then never finishes the body:
\* r.text() (line 189, line 28) or uRes.json() (line 249) stays pending.
BodyStalls(r, b) ==
    /\ conn[r][b] = "body"
    /\ conn' = [conn EXCEPT ![r][b] = "stalled"]
    /\ UNCHANGED <<pc, handler, query, fetchUrl, out, resp, timer, aborted, issued,
                   sent, config, fmtIn, fmtOut>>

-----------------------------------------------------------------------------
(* One request, every header set, a few origin-uptime bodies *)

Init ==
    /\ InitRequests({1}, {DefaultConfig})
    /\ NoFormatting

Next ==
    \/ \E r \in Requests : ReceiveFirst(r)
    \/ \E r \in Requests :
           /\ pc[r] = "firstFetch"
           /\ \E st \in Statuses, h \in HeaderSets, lat \in Latencies :
                  FirstResponds(r, st, h, lat)
    \/ \E r \in Requests, text \in Bodies : FirstBodyRead(r, text)
    \/ \E r \in Requests : FirstFails(r)
    \/ \E r \in Requests, up \in Uptimes : Receive(r, NoQuery, up)
    \/ \E r \in Requests :
           /\ pc[r] = "targetFetch"
           /\ \E st \in Statuses, h \in HeaderSets, lat \in Latencies :
                  TargetResponds(r, st, h, lat)
    \/ \E r \in Requests, body \in Bodies : TargetBodyRead(r, body)
    \/ \E r \in Requests, e \in ErrorNames : TargetFails(r, e)
    \/ \E r \in Requests : TargetTimeout(r)
    \/ \E r \in Requests, st \in Statuses : OriginResponds(r, st)
    \/ \E r \in Requests, body \in FewJsonBodies : OriginBodyRead(r, body)
    \/ \E r \in Requests : OriginFails(r)
    \/ \E r \in Requests : OriginTimeout(r)
    \/ \E r \in Requests, b \in Branches : BodyStalls(r, b)

Spec == Init /\ [][Next]_vars

-----------------------------------------------------------------------------
(* Vocabulary of the properties *)

Second(r) == handler[r] = "second"

\* The handler of r obtained a target response and has classified it.
Classified(r) ==
    /\ resp[r].target.kind = "response"
    /\ \/ Second(r) /\ pc[r] \in {"originFetch", "originBody", "done"}
       \/ handler[r] = "first" /\ pc[r] = "done"

\* The target branch of r is over, with a response or with a failure.
TargetSettled(r) ==
    \/ resp[r].target.kind \in {"error", "timeout"}
    \/ resp[r].target.kind = "response" /\ resp[r].targetBody # Unread

\* A header value that is a decimal numeral of a number greater than 0.
PositiveNumeral(v) ==
    /\ v.t = "str"
    /\ v.s # << >>
    /\ \A i \in 1..Len(v.s) : IsDigit(v.s[i])
    /\ \E i \in 1..Len(v.s) : v.s[i] # "0"

HeaderText(v) == IF v.t = "str" THEN toLowerCase(v.s) ELSE s_empty

\* The lower-cased X-Cache value, or X-Cache-Hits when X-Cache is absent.
XCacheText(h) ==
    IF HeaderText(h["x-cache"]) # s_empty THEN HeaderText(h["x-cache"])
    ELSE HeaderText(h["x-cache-hits"])

StartsWith(s, prefix) == Len(s) >= Len(prefix) /\ SubSeq(s, 1, Len(prefix)) = prefix

TargetFields(o) ==
    <<o.target, o.online, o.statusCode, o.latency, o.cache, o.cacheReason, o.bandwidth>>

-----------------------------------------------------------------------------
(* Properties of the cache classification *)

\* C1: whenever the target fetch returned a response whose Age header is a
\* number greater than 0, the reported cache status is exactly HIT whatever
\* the other headers say; an Age that is absent, zero, negative or not a
\* number never triggers the rule (the reason is then not an age reason).
C1_AgeDominates ==
    \A r \in Requests :
        Classified(r) =>
            LET h == resp[r].target.headers
            IN  IF PositiveNumeral(h["age"])
                THEN out[r].cache = "HIT"
                ELSE /\ out[r].cache # "HIT (age)"
                     /\ Second(r) => ~StartsWith(out[r].cacheReason.s, s_agePrefix)

\* C1, on the second registration alone (lines 195-205): the same statement,
\* with the reason recording the age.
C1_AgeDominates_Second ==
    \A r \in Requests :
        (Classified(r) /\ Second(r)) =>
            LET h == resp[r].target.headers
            IN  IF PositiveNumeral(h["age"])
                THEN /\ out[r].cache = "HIT"
                     /\ out[r].cacheReason = Str(s_agePrefix \o h["age"].s)
                ELSE ~StartsWith(out[r].cacheReason.s, s_agePrefix)

\* C2: with no positive Age, rule 2 reads CF-Cache-Status and X-Cache (or
\* X-Cache-Hits) lower-cased and alike: "hit" in either gives HIT, else
\* "revalidated", "stale-while-revalidate" or "revalidate" in either gives
\* REVALIDATED, else "miss" in either gives MISS.
C2_VendorRules ==
    \A r \in Requests :
        (Classified(r) /\ Second(r) /\ ~PositiveNumeral(resp[r].target.headers["age"])) =>
            LET h == resp[r].target.headers
                cf == HeaderText(h["cf-cache-status"])
                xc == XCacheText(h)
                either(word) == includes(cf, word) \/ includes(xc, word)
            IN  IF either(s_hit) THEN out[r].cache = "HIT"
                ELSE IF either(s_revalidated) \/ either(s_swr) \/ either(s_revalidate)
                THEN out[r].cache = "REVALIDATED"
                ELSE either(s_miss) => out[r].cache = "MISS"

\* C2, as the second registration has it: CF-Cache-Status counts for
\* REVALIDATED only when it contains "revalidated".
C2_VendorRules_AsCoded ==
    \A r \in Requests :
        (Classified(r) /\ Second(r) /\ ~PositiveNumeral(resp[r].target.headers["age"])) =>
            LET h == resp[r].target.headers
                cf == HeaderText(h["cf-cache-status"])
                xc == XCacheText(h)
                either(word) == includes(cf, word) \/ includes(xc, word)
            IN  IF either(s_hit) THEN out[r].cache = "HIT"
                ELSE IF includes(cf, s_revalidated) \/ includes(xc, s_revalidate)
                THEN out[r].cache = "REVALIDATED"
                ELSE either(s_miss) => out[r].cache = "MISS"

\* C3: with no Age, no CF-Cache-Status and no X-Cache (or X-Cache-Hits)
\* header, X-Nf-Request-Id alone decides: HIT when it contains "cache" or
\* "hit", UNKNOWN otherwise, never another status; the reason records the
\* header value, or "none" when the header is absent.
C3_NfFallback ==
    \A r \in Requests :
        LET h == resp[r].target.headers
            nf == h["x-nf-request-id"]
        IN  (/\ Classified(r)
             /\ h["age"] = Null /\ h["cf-cache-status"] = Null
             /\ h["x-cache"] = Null /\ h["x-cache-hits"] = Null) =>
                /\ out[r].cache =
                       IF includes(HeaderText(nf), s_cache) \/ includes(HeaderText(nf), s_hit)
                       THEN "HIT" ELSE "UNKNOWN"
                /\ Second(r) =>
                       out[r].cacheReason =
                           Str(s_nfPrefix \o (IF nf = Null THEN s_none ELSE nf.s))

\* C3, on the second registration alone (lines 224-233).
C3_NfFallback_Second ==
    \A r \in Requests :
        LET h == resp[r].target.headers
            nf == h["x-nf-request-id"]
        IN  (/\ Classified(r) /\ Second(r)
             /\ h["age"] = Null /\ h["cf-cache-status"] = Null
             /\ h["x-cache"] = Null /\ h["x-cache-hits"] = Null) =>
                /\ out[r].cache =
                       IF includes(HeaderText(nf), s_cache) \/ includes(HeaderText(nf), s_hit)
                       THEN "HIT" ELSE "UNKNOWN"
                /\ out[r].cacheReason =
                       Str(s_nfPrefix \o (IF nf = Null THEN s_none ELSE nf.s))

-----------------------------------------------------------------------------
(* Properties of the target branch *)

FailureName(outcome) ==
    IF outcome.kind = "timeout" THEN s_AbortError ELSE outcome.name

FailedRecord(o, outcome) ==
    /\ o.online = FALSE
    /\ o.statusCode = 0
    /\ o.latency = -1
    /\ o.cache = "NONE"
    /\ o.bandwidth = 0
    /\ o.cacheReason = Str(s_fetchErrorPrefix \o FailureName(outcome))

\* C4: when the target fetch fails before a response is obtained (timeout
\* abort or network error) the record has online=false, statusCode=0,
\* latency=-1, cache=NONE, bandwidth=0 and a reason naming the failure, and
\* every response /monitor writes, that one included, has status 200.
C4_TargetFailure ==
    \A r \in Requests :
        Second(r) =>
            /\ resp[r].target.kind \in {"error", "timeout"} =>
                   FailedRecord(out[r], resp[r].target)
            /\ \A i \in 1..Len(sent[r]) :
                   /\ sent[r][i].status = 200
                   /\ resp[r].target.kind \in {"error", "timeout"} =>
                          FailedRecord(sent[r][i].body, resp[r].target)

C4_Witness ==
    \E r \in Requests :
        /\ Second(r)
        /\ resp[r].target.kind = "timeout"
        /\ Len(sent[r]) = 1
        /\ sent[r][1].status = 200
        /\ sent[r][1].body.cache = "NONE"

-----------------------------------------------------------------------------
(* One request of the second program, a few header sets, every
   origin-uptime body *)

InitOrigin ==
    /\ InitRequests({1}, {DefaultConfig})
    /\ NoFormatting

NextOrigin ==
    \/ \E r \in Requests, up \in Uptimes : Receive(r, NoQuery, up)
    \/ \E r \in Requests, st \in Statuses, h \in FewHeaderSets, lat \in Latencies :
           TargetResponds(r, st, h, lat)
    \/ \E r \in Requests, body \in Bodies : TargetBodyRead(r, body)
    \/ \E r \in Requests, e \in ErrorNames : TargetFails(r, e)
    \/ \E r \in Requests : TargetTimeout(r)
    \/ \E r \in Requests, st \in Statuses : OriginResponds(r, st)
    \/ \E r \in Requests, body \in JsonBodies : OriginBodyRead(r, body)
    \/ \E r \in Requests : OriginFails(r)
    \/ \E r \in Requests : OriginTimeout(r)
    \/ \E r \in Requests, b \in Branches : BodyStalls(r, b)

SpecOrigin == InitOrigin /\ [][NextOrigin]_vars

-----------------------------------------------------------------------------
(* Properties of the origin-uptime branch *)

\* C5: the origin-uptime branch never changes target, online, statusCode,
\* latency, cache, cacheReason or bandwidth: from the end of the target
\* branch on they keep their values through every outcome of the
\* origin-uptime call, the response carries them, and the origin-uptime
\* fetch is issued whatever way the target branch ended.
C5_BranchIndependence ==
    /\ [][\A r \in Requests :
            (Second(r) /\ pc[r] \in {"originFetch", "originBody"}) =>
                TargetFields(out'[r]) = TargetFields(out[r])]_vars
    /\ [](\A r \in Requests :
            Second(r) =>
                /\ TargetSettled(r) => issued[r].origin = 1
                /\ \A i \in 1..Len(sent[r]) :
                       TargetFields(sent[r][i].body) = TargetFields(out[r]))

C5_Witness ==
    \E r \in Requests :
        /\ Second(r)
        /\ pc[r] = "done"
        /\ resp[r].target.kind = "response"
        /\ resp[r].origin.kind = "timeout"
        /\ out[r].online = TRUE
        /\ out[r].cache = "HIT"
        /\ out[r].originUptimeFormatted = Str(s_unavailable)

\* The origin-uptime call of r returned a 2xx response whose JSON body is a
\* bare number or an object with a numeric uptime field.
NumericOriginBody(r) ==
    /\ resp[r].origin.kind = "response"
    /\ ok(resp[r].origin.status)
    /\ \/ resp[r].originBody.t = "num"
       \/ resp[r].originBody.t = "obj" /\ resp[r].originBody.uptime.t = "num"

Unavailable(v) == v.t = "str" /\ StartsWith(v.s, s_unavailable)

\* C6: the reported originUptime is null or a finite number; it is a number
\* only when the origin-uptime call returned a 2xx response whose JSON body
\* is a bare number or an object with a numeric uptime field; on every
\* other outcome originUptime is null and originUptimeFormatted is null or
\* an "unavailable" string.
C6_OriginUptime ==
    \A r \in Requests :
        Second(r) =>
            \A i \in 1..Len(sent[r]) :
                LET b == sent[r][i].body
                IN  /\ b.originUptime = Null \/ b.originUptime.t = "num"
                    /\ b.originUptime.t = "num" => NumericOriginBody(r)
                    /\ ~NumericOriginBody(r) =>
                           /\ b.originUptime = Null
                           /\ b.originUptimeFormatted = Null
                              \/ Unavailable(b.originUptimeFormatted)

\* C6, as the second registration has it (lines 250-257): the uptime field
\* is converted with Number(), so a numeric string or a boolean is reported
\* as a number too; a bare number too large to be finite is reported as
\* null with the formatted value "0s".
C6_OriginUptime_AsCoded ==
    \A r \in Requests :
        Second(r) =>
            \A i \in 1..Len(sent[r]) :
                LET b == sent[r][i].body
                    body == resp[r].originBody
                    converts ==
                        /\ resp[r].origin.kind = "response"
                        /\ ok(resp[r].origin.status)
                        /\ \/ body.t = "num"
                           \/ /\ body.t = "obj"
                              /\ body.uptime.t \in {"num", "bool"}
                                 \/ PositiveNumeral(body.uptime)
                IN  /\ b.originUptime = Null \/ b.originUptime.t = "num"
                    /\ b.originUptime.t = "num" <=> converts
                    /\ ~converts =>
                           \/ b.originUptimeFormatted = Null
                           \/ Unavailable(b.originUptimeFormatted)
                           \/ body = Infinity /\ b.originUptimeFormatted = Str(<<"0", "s">>)

-----------------------------------------------------------------------------
(* Several requests of the second program in flight, every query *)

\* How many /monitor requests are in flight together.
MaxRequests == 2

InitQuery ==
    /\ InitRequests(1..MaxRequests, {EnvConfig})
    /\ NoFormatting

NextQuery ==
    \/ \E r \in Requests, q \in Queries, up \in Uptimes : Receive(r, q, up)
    \/ \E r \in Requests, lat \in Latencies : TargetResponds(r, 200, NoHeaders, lat)
    \/ \E r \in Requests : TargetBodyRead(r, Str(<<"o", "k">>))
    \/ \E r \in Requests : OriginResponds(r, 503)

SpecQuery == InitQuery /\ [][NextQuery]_vars

Given(v) == v.t = "str" /\ v.s # s_empty

\* C7: a request with no target parameter probes exactly the configured
\* default target, one with no originUptime parameter uses the configured
\* default origin-uptime URL, a request that supplies overrides uses them,
\* and no request, in any interleaving, changes the process-wide defaults.
C7_Defaults ==
    /\ [][config' = config]_vars
    /\ [](\A r \in Requests :
            pc[r] # "idle" =>
                /\ out[r].target = fetchUrl[r].target
                /\ query[r].target = Undefined => fetchUrl[r].target = config.target
                /\ Given(query[r].target) => fetchUrl[r].target = query[r].target
                /\ query[r].originUptime = Undefined =>
                       fetchUrl[r].origin = config.originUptimeEndpoint
                /\ Given(query[r].originUptime) =>
                       fetchUrl[r].origin = query[r].originUptime)

\* C7, amended: the origin-uptime override is read from originUptime and,
\* when that is absent, from origin_uptime; the default origin-uptime URL
\* is used when neither is given, and an empty parameter counts as absent.
C7_Defaults_Amended ==
    /\ [][config' = config]_vars
    /\ [](\A r \in Requests :
            pc[r] # "idle" =>
                /\ out[r].target = fetchUrl[r].target
                /\ ~Given(query[r].target) => fetchUrl[r].target = config.target
                /\ Given(query[r].target) => fetchUrl[r].target = query[r].target
                /\ (~Given(query[r].originUptime) /\ ~Given(query[r].origin_uptime)) =>
                       fetchUrl[r].origin = config.originUptimeEndpoint
                /\ Given(query[r].originUptime) =>
                       fetchUrl[r].origin = query[r].originUptime
                /\ (~Given(query[r].originUptime) /\ Given(query[r].origin_uptime)) =>
                       fetchUrl[r].origin = query[r].origin_uptime)

C7_Witness ==
    \E r1, r2 \in Requests :
        /\ pc[r1] = "originFetch"
        /\ query[r1].target = Str(url_queryTarget)
        /\ fetchUrl[r1].target = Str(url_queryTarget)
        /\ query[r1].origin_uptime = Str(url_queryOriginSnake)
        /\ pc[r2] = "targetFetch"
        /\ query[r2] = NoQuery
        /\ fetchUrl[r2].target = config.target
        /\ fetchUrl[r2].origin = config.originUptimeEndpoint
        /\ config.target = Str(url_envTarget)

-----------------------------------------------------------------------------
(* Several requests of the second program in flight, every timing *)

InitConc ==
    /\ InitRequests(1..MaxRequests, {DefaultConfig})
    /\ NoFormatting

NextConc ==
    \/ \E r \in Requests, up \in Uptimes : Receive(r, NoQuery, up)
    \/ \E r \in Requests, lat \in Latencies : TargetResponds(r, 200, NoHeaders, lat)
    \/ \E r \in Requests : TargetBodyRead(r, Str(<<"o", "k">>))
    \/ \E r \in Requests : TargetFails(r, s_FetchError)
    \/ \E r \in Requests : TargetTimeout(r)
    \/ \E r \in Requests, st \in Statuses : OriginResponds(r, st)
    \/ \E r \in Requests : OriginBodyRead(r, Num(45000))
    \/ \E r \in Requests : OriginFails(r)
    \/ \E r \in Requests : OriginTimeout(r)
    \/ \E r \in Requests, b \in Branches : BodyStalls(r, b)

SpecConc == InitConc /\ [][NextConc]_vars

\* Timers fire, and the handler and the remote servers take every step that
\* stays possible; a server is free to stall a body for ever.
Fairness ==
    \A r \in 1..MaxRequests :
        /\ WF_vars(TargetTimeout(r))
        /\ WF_vars(OriginTimeout(r))
        /\ WF_vars(\E up \in Uptimes : Receive(r, NoQuery, up))
        /\ WF_vars(TargetBodyRead(r, Str(<<"o", "k">>)))
        /\ WF_vars(OriginBodyRead(r, Num(45000)))

FairSpec == InitConc /\ [][NextConc]_vars /\ Fairness

\* The call of fetchWithTimeout for branch b of request r has returned or thrown.
CallOver(r, b) ==
    IF b = "target" THEN pc[r] \in {"targetBody", "originFetch", "originBody", "done"}
    ELSE pc[r] \in {"originBody", "done"}

CallPending(r, b) ==
    IF b = "target" THEN pc[r] = "targetFetch" ELSE pc[r] = "originFetch"

\* C9: every /monitor request eventually sends exactly one response, even
\* when a remote server never sends headers or stalls while its body is read.
C9_EveryRequestAnswered ==
    \A r \in 1..MaxRequests :
        /\ [](Len(sent[r]) <= 1)
        /\ [](pc[r] # "idle" => <>(Len(sent[r]) = 1))

\* C9, the part about headers: a call of fetchWithTimeout that is pending
\* returns or throws, whether or not the remote server ever answers, and
\* no request is answered twice.
C9_FetchPhaseEnds ==
    \A r \in 1..MaxRequests :
        /\ [](Len(sent[r]) <= 1)
        /\ [](pc[r] = "targetFetch" => <>(pc[r] # "targetFetch"))
        /\ [](pc[r] = "originFetch" => <>(pc[r] # "originFetch"))

\* C10: each call of fetchWithTimeout has its own controller and timer: the
\* timer is pending exactly while the call is, and is cleared or has fired
\* on every exit; a timer firing aborts the fetch of its own call and of no
\* other call of any request; each branch calls fetch once per request.
C10_TimerScope ==
    /\ [](\A r \in Requests : \A b \in Branches :
            /\ CallOver(r, b) => timer[r][b] \in {"cleared", "fired"}
            /\ CallPending(r, b) => timer[r][b] = "pending"
            /\ aborted[r][b] => timer[r][b] = "fired"
            /\ issued[r][b] = IF CallOver(r, b) \/ CallPending(r, b) THEN 1 ELSE 0)
    /\ [][\A r \in Requests : \A b \in Branches :
            (aborted'[r][b] /\ ~aborted[r][b]) =>
                /\ timer[r][b] = "pending" /\ timer'[r][b] = "fired"
                /\ \A r2 \in Requests : \A b2 \in Branches :
                       (<<r2, b2>> # <<r, b>>) =>
                           /\ aborted'[r2][b2] = aborted[r2][b2]
                           /\ conn'[r2][b2] = "aborted" => conn[r2][b2] = "aborted"]_vars

C10_Witness ==
    \E r1, r2 \in Requests :
        /\ r1 # r2
        /\ aborted[r1].target /\ timer[r1].target = "fired"
        /\ ~aborted[r1].origin /\ timer[r1].origin = "cleared" /\ pc[r1] = "done"
        /\ pc[r2] = "targetFetch" /\ timer[r2].target = "pending" /\ ~aborted[r2].target
        /\ issued[r1] = [b \in Branches |-> 1]

-----------------------------------------------------------------------------
(* Two calls of formatUptimeSeconds *)

\* The first argument ranges over every whole and half second up to here.
MaxSeconds == 130

LongUptimes == {3599, 3600, 3601, 3660, 3661, 7199, 7200, 7325, 86399, 86400, 90061}

FormatArguments ==
    {NaN, Infinity, Num(-5000), Num(-1)}
    \cup {Num(1000 * k + f) : k \in (0..MaxSeconds) \cup LongUptimes, f \in {0, 500}}

FormatProbes ==
    {Infinity, Num(-5000)}
    \cup {Num(1000 * k + f) : k \in {0, 45, 59, 60, 65} \cup LongUptimes, f \in {0, 999}}

InitFmt ==
    /\ InitRequests({}, {DefaultConfig})
    /\ fmtIn \in {<<a, b>> : a \in FormatArguments, b \in FormatProbes}
    /\ fmtOut = <<Null, Null>>

\* formatUptimeSeconds(up), as lines 154, 174, 253, 257 and 273 call it
CallFormat(i) ==
    /\ fmtOut[i] = Null
    /\ fmtOut' = [fmtOut EXCEPT ![i] = Str(formatUptimeSeconds(fmtIn[i]))]
    /\ UNCHANGED <<fmtIn, pc, handler, query, fetchUrl, out, resp, timer, aborted,
                   conn, issued, sent, config>>

NextFmt ==
    \/ CallFormat(1)
    \/ CallFormat(2)

SpecFmt == InitFmt /\ [][NextFmt]_vars

\* The string the rules give for a whole number of seconds.
ExpectedFormat(s) ==
    LET h == s \div 3600
        m == (s % 3600) \div 60
        c == s % 60
    IN  (IF h > 0 THEN NatToChars(h) \o <<"h", " ">> ELSE << >>)
        \o (IF m > 0 \/ h > 0 THEN NatToChars(m) \o <<"m", " ">> ELSE << >>)
        \o NatToChars(c) \o <<"s">>

NonNegative(v) == v.t = "num" /\ v.m >= 0

\* C8: formatUptimeSeconds gives "0s" for a negative or non-finite argument
\* and otherwise the hours (if any), the minutes (if any, or if there are
\* hours) and the seconds of the whole-second value; 0 and -5 give "0s", 45
\* gives "45s", 65 "1m 5s", 3600 "1h 0m 0s", 3661 "1h 1m 1s"; two
\* non-negative arguments give the same string exactly when their
\* whole-second values are equal.
C8_FormatUptime ==
    /\ \A i \in 1..2 :
           fmtOut[i] # Null =>
               /\ ~NonNegative(fmtIn[i]) => fmtOut[i].s = <<"0", "s">>
               /\ NonNegative(fmtIn[i]) =>
                      fmtOut[i].s = ExpectedFormat(fmtIn[i].m \div 1000)
               /\ fmtIn[i] = Num(0) => fmtOut[i].s = <<"0", "s">>
               /\ fmtIn[i] = Num(-5000) => fmtOut[i].s = <<"0", "s">>
               /\ fmtIn[i] = Num(45000) => fmtOut[i].s = <<"4", "5", "s">>
               /\ fmtIn[i] = Num(65000) => fmtOut[i].s = <<"1", "m", " ", "5", "s">>
               /\ fmtIn[i] = Num(3600000) =>
                      fmtOut[i].s = <<"1", "h", " ", "0", "m", " ", "0", "s">>
               /\ fmtIn[i] = Num(3661000) =>
                      fmtOut[i].s = <<"1", "h", " ", "1", "m", " ", "1", "s">>
    /\ (/\ fmtOut[1] # Null /\ fmtOut[2] # Null
        /\ NonNegative(fmtIn[1]) /\ NonNegative(fmtIn[2])) =>
           (fmtOut[1] = fmtOut[2] <=> fmtIn[1].m \div 1000 = fmtIn[2].m \div 1000)

C8_Witness ==
    /\ fmtIn = <<Num(3600500), Num(3600999)>>
    /\ fmtOut[1] = Str(<<"1", "h", " ", "0", "m", " ", "0", "s">>)
    /\ fmtOut[2] = fmtOut[1]

=============================================================================
